---- MODULE Spec2Model ----
(***************************************************************************)
(* Model of two source files of the repository:                           *)
(*   - state_machine/database_lookup.rs: DatabaseLookupKey and its         *)
(*     SledOrderedSerde implementation (ser / de), together with the       *)
(*     lookup index that stores the serialized keys in an ordered tree;    *)
(*   - arrow/array/null.rs: NullArray and MutableNullArray.                *)
(*                                                                         *)
(* Bytes are integers 0..255, byte buffers (BytesMut, IVec, &[u8]) are     *)
(* sequences of bytes, a char is its Unicode scalar value and a String is  *)
(* the sequence of its chars; its UTF-8 bytes are computed by Utf8.        *)
(***************************************************************************)
EXTENDS Integers, Sequences, FiniteSets, TLC

VARIABLES
    key,        \* the DatabaseLookupKey built by DatabaseLookupKey::new
    buf,        \* the bytes handed to DatabaseLookupKey::de
    base,       \* the bytes `buf` was derived from by the last damage
    mut,        \* what happened to buf: "empty", "none", "trunc", "byte", "delim"
    res,        \* result of de(buf)
    res_base,   \* result of de(base)
    other_key,  \* a second key of the same tenant (ordering)
    other_buf,  \* ser of other_key
    store,      \* the ordered tree: serialized key :> DatabaseLookupValue
    entries,    \* the (tenant, name, value) triples put and not deleted
    ret,        \* return value of the last lookup-index operation
    length,     \* NullArray.length
    created,    \* the length the NullArray was created with
    call,       \* the last NullArray call and its arguments
    outcome,    \* "ok" or "panic": how the last NullArray call ended
    overflow_checks, \* whether the build traps on integer overflow
    m_length,   \* MutableNullArray.inner.length
    m_n,        \* the length MutableNullArray::new was given
    m_pushes,   \* number of push_null calls made
    m_ret,      \* return value of the last MutableNullArray call
    m_outcome   \* "ok" or "panic": how the last MutableNullArray call ended

vars == <<key, buf, base, mut, res, res_base, other_key, other_buf,
          store, entries, ret, length, created, call, outcome,
          overflow_checks, m_length, m_n, m_pushes, m_ret, m_outcome>>

keyVars == <<key, buf, base, mut, res, res_base>>
orderVars == <<other_key, other_buf>>
storeVars == <<store, entries, ret>>
nullVars == <<length, created, call, outcome>>
mutVars == <<m_length, m_n, m_pushes, m_ret, m_outcome>>

----------------------------------------------------------------------------
(* Bounds of the model *)

\* longest database name, in chars
MaxNameLen == 2
\* usize::MAX of the modelled machine (usize arithmetic is modulo USIZE_MAX + 1)
USIZE_MAX == 7
\* most push_null calls counted
MaxPushes == 10

----------------------------------------------------------------------------
(* Bytes, chars and strings *)

Min(a, b) == IF a < b THEN a ELSE b

\* const DB_LOOKUP_KEY_DELIMITER: char = U+1F40B
DB_LOOKUP_KEY_DELIMITER == 128011

\* chars the names are drawn from: 'a' (1 UTF-8 byte), U+00E9 (2 bytes),
\* U+20AC (3 bytes) and the delimiter itself (4 bytes)
Chars == {97, 233, 8364, DB_LOOKUP_KEY_DELIMITER}

RECURSIVE StringsOfLen(_)
StringsOfLen(n) ==
    IF n = 0 THEN {<<>>}
    ELSE {Append(s, c) : s \in StringsOfLen(n - 1), c \in Chars}

Names == UNION {StringsOfLen(n) : n \in 0..MaxNameLen}

\* uuid::Uuid is 16 bytes, kept in big-endian (network) order
Zeros(n) == [i \in 1..n |-> 0]
T1 == Zeros(16)
T2 == [i \in 1..16 |-> IF i = 16 THEN 1 ELSE 0]
T3 == [i \in 1..16 |-> IF i = 1 THEN 1 ELSE 0]
Tenants == {T1, T2, T3}

\* the UTF-8 bytes of one char (char::encode_utf8)
Utf8Char(c) ==
    IF c < 128 THEN <<c>>
    ELSE IF c < 2048 THEN <<192 + (c \div 64), 128 + (c % 64)>>
    ELSE IF c < 65536 THEN
        <<224 + (c \div 4096), 128 + ((c \div 64) % 64), 128 + (c % 64)>>
    ELSE <<240 + (c \div 262144), 128 + ((c \div 4096) % 64),
           128 + ((c \div 64) % 64), 128 + (c % 64)>>

\* the bytes of a String (String::as_bytes)
RECURSIVE Utf8(_)
Utf8(s) == IF s = <<>> THEN <<>> ELSE Utf8Char(Head(s)) \o Utf8(Tail(s))

IsCont(b) == b >= 128 /\ b <= 191

\* String::from_utf8: the chars of a byte sequence, or failure when the bytes
\* are not well-formed UTF-8 (bad lead byte, missing or bad continuation byte,
\* overlong form, surrogate, above U+10FFFF)
RECURSIVE FromUtf8(_)
FromUtf8(bs) ==
    IF bs = <<>> THEN [ok |-> TRUE, val |-> <<>>]
    ELSE
      LET b0 == bs[1]
          n == IF b0 < 128 THEN 1
               ELSE IF b0 >= 194 /\ b0 <= 223 THEN 2
               ELSE IF b0 >= 224 /\ b0 <= 239 THEN 3
               ELSE IF b0 >= 240 /\ b0 <= 244 THEN 4
               ELSE 0
      IN IF n = 0 \/ Len(bs) < n \/ \E i \in 2..n : ~IsCont(bs[i])
         THEN [ok |-> FALSE, val |-> <<>>]
         ELSE
           LET c == IF n = 1 THEN b0
                    ELSE IF n = 2 THEN (b0 - 192) * 64 + (bs[2] - 128)
                    ELSE IF n = 3 THEN (b0 - 224) * 4096 + (bs[2] - 128) * 64
                                       + (bs[3] - 128)
                    ELSE (b0 - 240) * 262144 + (bs[2] - 128) * 4096
                         + (bs[3] - 128) * 64 + (bs[4] - 128)
               bad == \/ (n = 3 /\ c < 2048)
                      \/ (n = 4 /\ c < 65536)
                      \/ (c >= 55296 /\ c <= 57343)
                      \/ c > 1114111
               rest == FromUtf8(SubSeq(bs, n + 1, Len(bs)))
           IN IF bad \/ ~rest.ok THEN [ok |-> FALSE, val |-> <<>>]
              ELSE [ok |-> TRUE, val |-> <<c>> \o rest.val]

----------------------------------------------------------------------------
(* Byte codec primitives (common_io BinaryWriteBuf / BinaryRead) *)

\* write_binary of a Uuid: the 16 bytes of the identifier, fixed width
write_binary(b, uuid) == [ok |-> TRUE, buf |-> b \o uuid]

\* the fixed-width 4-byte form of a char: its code point, big-endian
ScalarBytes(c) ==
    <<(c \div 16777216) % 256, (c \div 65536) % 256, (c \div 256) % 256, c % 256>>

\* write_scalar of a char
write_scalar(b, c) == [ok |-> TRUE, buf |-> b \o ScalarBytes(c)]

\* the variable-length unsigned integer: 7 bits per byte, low group first,
\* the high bit set on every byte but the last
RECURSIVE Uvarint(_)
Uvarint(n) ==
    IF n < 128 THEN <<n>> ELSE <<128 + (n % 128)>> \o Uvarint(n \div 128)

\* write_string: the length prefix (number of UTF-8 bytes), then the bytes
write_string(b, s) ==
    LET bytes == Utf8(s)
    IN [ok |-> TRUE, buf |-> b \o Uvarint(Len(bytes)) \o bytes]

\* a reader failed / succeeded with value val and the cursor at pos
ReadErr == [ok |-> FALSE, val |-> <<>>, pos |-> 0]
ReadOk(val, pos) == [ok |-> TRUE, val |-> val, pos |-> pos]

\* read_uuid: the next 16 bytes; fails when fewer remain.
\* pos is the cursor position (number of bytes already consumed).
read_uuid(v, pos) ==
    IF pos + 16 > Len(v) THEN ReadErr
    ELSE ReadOk(SubSeq(v, pos + 1, pos + 16), pos + 16)

\* a value no buffer of the model is as long as: lengths saturate here
Huge == 1024 * 1024

\* read_uvarint: fails when the bytes end before a byte without the high bit
\* (or after 10 bytes); k is the index of the group being read
RECURSIVE read_uvarint_from(_, _, _, _)
read_uvarint_from(v, pos, k, acc) ==
    IF k >= 10 \/ pos + 1 > Len(v) THEN ReadErr
    ELSE
      LET b == v[pos + 1]
          p == b % 128
          add == IF p = 0 THEN 0
                 ELSE IF k = 0 THEN p
                 ELSE IF k = 1 THEN p * 128
                 ELSE IF k = 2 THEN p * 16384
                 ELSE Huge
          acc2 == Min(Huge, acc + add)
      IN IF b < 128 THEN ReadOk(acc2, pos + 1)
         ELSE read_uvarint_from(v, pos + 1, k + 1, acc2)

read_uvarint(v, pos) == read_uvarint_from(v, pos, 0, 0)

\* read_string: the length prefix, then that many bytes, which must be UTF-8;
\* fails when fewer bytes remain than the prefix says
read_string(v, pos) ==
    LET n == read_uvarint(v, pos)
    IN IF ~n.ok THEN ReadErr
       ELSE IF n.pos + n.val > Len(v) THEN ReadErr
       ELSE
         LET s == FromUtf8(SubSeq(v, n.pos + 1, n.pos + n.val))
         IN IF s.ok THEN ReadOk(s.val, n.pos + n.val) ELSE ReadErr

\* bytes::Buf::advance on a Cursor: panics when cnt exceeds what remains
advance(v, pos, cnt) ==
    IF pos + cnt > Len(v) THEN [panic |-> TRUE, pos |-> pos]
    ELSE [panic |-> FALSE, pos |-> pos + cnt]

----------------------------------------------------------------------------
(* DatabaseLookupKey *)

\* DatabaseLookupKey::new
new(tenant_id, database_name) ==
    [tenant_id |-> tenant_id,
     delimiter |-> DB_LOOKUP_KEY_DELIMITER,
     database_name |-> database_name]

\* derived PartialEq: field by field
KeyEq(a, b) ==
    /\ a.tenant_id = b.tenant_id
    /\ a.delimiter = b.delimiter
    /\ a.database_name = b.database_name

Ok(x) == [tag |-> "Ok", val |-> x]
MetaStoreDamaged == [tag |-> "Err", val |-> "MetaStoreDamaged: invalid key IVec"]
Panic == [tag |-> "Panic", val |-> "advance past the end of the buffer"]
Pending == [tag |-> "Pending", val |-> <<>>]

\* two results of de are the same result
SameResult(a, b) == a.tag = b.tag /\ (a.tag = "Ok" => KeyEq(a.val, b.val))

\* ser with the length prefix counting chars instead of UTF-8 bytes
ser_char_count(k) ==
    LET w1 == write_binary(<<>>, k.tenant_id)
        w2 == write_scalar(w1.buf, k.delimiter)
    IN Ok(w2.buf \o Uvarint(Len(k.database_name)) \o Utf8(k.database_name))

\* ser writing the delimiter before the tenant id
ser_delimiter_first(k) ==
    LET w1 == write_scalar(<<>>, k.delimiter)
        w2 == write_binary(w1.buf, k.tenant_id)
        w3 == write_string(w2.buf, k.database_name)
    IN IF w1.ok /\ w2.ok /\ w3.ok THEN Ok(w3.buf) ELSE MetaStoreDamaged

\* ser writing the tenant id without its leading zero bytes
RECURSIVE StripZeros(_)
StripZeros(b) ==
    IF b # <<>> /\ Head(b) = 0 THEN StripZeros(Tail(b)) ELSE b

ser_short_tenant(k) ==
    LET w1 == write_binary(<<>>, StripZeros(k.tenant_id))
        w2 == write_scalar(w1.buf, k.delimiter)
        w3 == write_string(w2.buf, k.database_name)
    IN IF w1.ok /\ w2.ok /\ w3.ok THEN Ok(w3.buf) ELSE MetaStoreDamaged

\* SledOrderedSerde::ser
ser(k) ==
    LET w1 == write_binary(<<>>, k.tenant_id)
        w2 == write_scalar(w1.buf, k.delimiter)
        w3 == write_string(w2.buf, k.database_name)
    IN IF w1.ok /\ w2.ok /\ w3.ok THEN Ok(w3.buf) ELSE MetaStoreDamaged

\* de taking the delimiter from the bytes it skips
de_reads_delimiter(v) ==
    LET tenant_id == read_uuid(v, 0)
    IN IF tenant_id.ok THEN
         LET skipped == advance(v, tenant_id.pos, 4)
         IN IF skipped.panic THEN Panic
            ELSE
              LET database_name_result == read_string(v, skipped.pos)
              IN IF database_name_result.ok
                 THEN Ok([tenant_id |-> tenant_id.val,
                          delimiter |-> v[18] * 65536 + v[19] * 256 + v[20],
                          database_name |-> database_name_result.val])
                 ELSE MetaStoreDamaged
       ELSE MetaStoreDamaged

\* de rejecting bytes whose delimiter is not DB_LOOKUP_KEY_DELIMITER
de_validates_delimiter(v) ==
    LET tenant_id == read_uuid(v, 0)
    IN IF tenant_id.ok THEN
         LET skipped == advance(v, tenant_id.pos, 4)
         IN IF skipped.panic THEN Panic
            ELSE IF SubSeq(v, 17, 20) # ScalarBytes(DB_LOOKUP_KEY_DELIMITER)
            THEN MetaStoreDamaged
            ELSE
              LET database_name_result == read_string(v, skipped.pos)
              IN IF database_name_result.ok
                 THEN Ok([tenant_id |-> tenant_id.val,
                          delimiter |-> DB_LOOKUP_KEY_DELIMITER,
                          database_name |-> database_name_result.val])
                 ELSE MetaStoreDamaged
       ELSE MetaStoreDamaged

\* SledOrderedSerde::de
de(v) ==
    LET tenant_id == read_uuid(v, 0)
    IN IF tenant_id.ok THEN
         LET skipped == advance(v, tenant_id.pos, 4)
         IN IF skipped.panic THEN Panic
            ELSE
              LET database_name_result == read_string(v, skipped.pos)
              IN IF database_name_result.ok
                 THEN Ok([tenant_id |-> tenant_id.val,
                          delimiter |-> DB_LOOKUP_KEY_DELIMITER,
                          database_name |-> database_name_result.val])
                 ELSE MetaStoreDamaged
       ELSE MetaStoreDamaged

\* get_database_name
get_database_name(k) == k.database_name

----------------------------------------------------------------------------
(* Encoding and decoding one key; the bytes may be damaged in between *)

Keys == {new(t, n) : t \in Tenants, n \in Names}

\* byte values a damaged byte may take: a small length, a continuation
\* byte, a byte that occurs in no UTF-8 text
DamagedBytes == {1, 128, 255}

\* what the four delimiter bytes may be overwritten with
DamagedDelimiters == {<<0, 0, 0, 0>>, <<0, 0, 0, 97>>}

KeyIdle ==
    /\ key = new(T1, <<>>)
    /\ buf = <<>>
    /\ base = <<>>
    /\ mut = "empty"
    /\ res = Pending
    /\ res_base = Pending

KeyInit ==
    /\ key \in Keys
    /\ buf = <<>>
    /\ base = <<>>
    /\ mut = "empty"
    /\ res = Pending
    /\ res_base = Pending

\* key.ser(): the buffer now holds the serialized key
Ser ==
    /\ mut = "empty"
    /\ ser(key).tag = "Ok"
    /\ buf' = ser(key).val
    /\ base' = ser(key).val
    /\ mut' = "none"
    /\ res' = Pending
    /\ res_base' = Pending
    /\ UNCHANGED key

\* the stored bytes are cut to their first n bytes
Truncate(n) ==
    /\ mut = "none"
    /\ n < Len(buf)
    /\ buf' = SubSeq(buf, 1, n)
    /\ base' = buf
    /\ mut' = "trunc"
    /\ res' = Pending
    /\ res_base' = Pending
    /\ UNCHANGED key

\* byte i of the stored bytes is overwritten with b
DamageByte(i, b) ==
    /\ mut = "none"
    /\ i \in 1..Len(buf)
    /\ buf[i] # b
    /\ buf' = [buf EXCEPT ![i] = b]
    /\ base' = buf
    /\ mut' = "byte"
    /\ res' = Pending
    /\ res_base' = Pending
    /\ UNCHANGED key

\* the four bytes at offsets 16..20 are overwritten with d
DamageDelimiter(d) ==
    /\ mut \in {"none", "trunc", "byte"}
    /\ Len(buf) >= 20
    /\ SubSeq(buf, 17, 20) # d
    /\ buf' = SubSeq(buf, 1, 16) \o d \o SubSeq(buf, 21, Len(buf))
    /\ base' = buf
    /\ mut' = "delim"
    /\ res' = Pending
    /\ res_base' = Pending
    /\ UNCHANGED key

\* DatabaseLookupKey::de on the bytes, and on the bytes before the last damage
De ==
    /\ res.tag = "Pending"
    /\ res' = de(buf)
    /\ res_base' = de(base)
    /\ UNCHANGED <<key, buf, base, mut>>

----------------------------------------------------------------------------
(* Two keys of one tenant and their serialized forms *)

OrderIdle ==
    /\ other_key = new(T1, <<>>)
    /\ other_buf = <<>>

OrderInit ==
    /\ other_key \in {new(key.tenant_id, n) : n \in Names}
    /\ other_buf = <<>>

SerKey ==
    /\ buf = <<>>
    /\ ser(key).tag = "Ok"
    /\ buf' = ser(key).val
    /\ base' = ser(key).val
    /\ mut' = "none"
    /\ UNCHANGED <<key, res, res_base, other_key, other_buf>>

SerOther ==
    /\ other_buf = <<>>
    /\ ser(other_key).tag = "Ok"
    /\ other_buf' = ser(other_key).val
    /\ UNCHANGED <<keyVars, other_key>>

\* a < b for two sequences of integers, lexicographically (Ord for str by
\* scalar values, Ord for [u8] by unsigned bytes)
RECURSIVE SeqLess(_, _)
SeqLess(a, b) ==
    IF b = <<>> THEN FALSE
    ELSE IF a = <<>> THEN TRUE
    ELSE IF Head(a) # Head(b) THEN Head(a) < Head(b)
    ELSE SeqLess(Tail(a), Tail(b))

----------------------------------------------------------------------------
(* The lookup index over the ordered tree *)

\* names and DatabaseLookupValue ids the index is exercised with
StoreNames == {<<97>>, <<DB_LOOKUP_KEY_DELIMITER, 233>>}
Values == {1, 2}

EmptyStore == [k \in {} |-> 0]

StoreIdle ==
    /\ store = EmptyStore
    /\ entries = {}
    /\ ret = [op |-> "none", val |-> <<>>]

IsPrefix(p, b) == Len(p) <= Len(b) /\ SubSeq(b, 1, Len(p)) = p

\* the byte prefix of a tenant: its fixed-width field
TenantPrefix(t) == write_binary(<<>>, t).buf

\* put: unconditional upsert under the serialized key
Put(t, n, v) ==
    LET k == ser(new(t, n))
    IN /\ k.tag = "Ok"
       /\ store' = [x \in DOMAIN store \cup {k.val} |->
                       IF x = k.val THEN v ELSE store[x]]
       /\ entries' = {e \in entries : ~(e[1] = t /\ e[2] = n)} \cup {<<t, n, v>>}
       /\ ret' = [op |-> "put", val |-> <<>>]

\* delete: removes the serialized key; absence is a no-op
Delete(t, n) ==
    LET k == ser(new(t, n))
    IN /\ k.tag = "Ok"
       /\ store' = [x \in DOMAIN store \ {k.val} |-> store[x]]
       /\ entries' = {e \in entries : ~(e[1] = t /\ e[2] = n)}
       /\ ret' = [op |-> "delete", val |-> <<>>]

\* get: point lookup of the serialized key
Get(t, n) ==
    LET k == ser(new(t, n))
    IN /\ k.tag = "Ok"
       /\ ret' = [op |-> "get",
                  val |-> IF k.val \in DOMAIN store THEN <<store[k.val]>> ELSE <<>>]
       /\ UNCHANGED <<store, entries>>

\* scan_prefix: every stored key that starts with the tenant's prefix, decoded,
\* with its value; a key that does not decode reports the store damaged
ScanPrefix(t) ==
    LET hits == {k \in DOMAIN store : IsPrefix(TenantPrefix(t), k)}
    IN /\ ret' = [op |-> "scan_prefix",
                  tenant |-> t,
                  damaged |-> \E k \in hits : de(k).tag # "Ok",
                  val |-> {<<de(k).val, store[k]>> :
                              k \in {x \in hits : de(x).tag = "Ok"}}]
       /\ UNCHANGED <<store, entries>>

----------------------------------------------------------------------------
(* NullArray *)

DataTypes == {"Null", "Int32"}

\* DataType::to_physical_type
to_physical_type(data_type) == IF data_type = "Null" THEN "Null" ELSE "Primitive"

\* NullArray::try_new
try_new(data_type, len) ==
    IF to_physical_type(data_type) # "Null"
    THEN [tag |-> "Err", val |-> "oos"]
    ELSE [tag |-> "Ok", val |-> [data_type |-> data_type, length |-> len]]

Usize == 0..USIZE_MAX

NoCall == [op |-> "none", offset |-> 0, length |-> 0, before |-> 0]

NullIdle ==
    /\ length = 0
    /\ created = 0
    /\ call = NoCall
    /\ outcome = "ok"

\* NullArray::new(data_type, n) did not panic
NullInit ==
    /\ \E d \in DataTypes, n \in Usize :
          /\ try_new(d, n).tag = "Ok"
          /\ length = try_new(d, n).val.length
          /\ created = n
    /\ call = NoCall
    /\ outcome = "ok"

\* offset + length in usize: with overflow checks an overflowing sum panics,
\* without them it wraps
usize_add(a, b, checks) ==
    IF a + b > USIZE_MAX
    THEN IF checks THEN [panic |-> TRUE, val |-> 0]
         ELSE [panic |-> FALSE, val |-> (a + b) % (USIZE_MAX + 1)]
    ELSE [panic |-> FALSE, val |-> a + b]

\* NullArray::slice_unchecked: the new length
slice_unchecked(len, offset, new_length) == new_length

\* NullArray::slice: the assertion, then slice_unchecked
slice(len, offset, new_length, checks) ==
    LET sum == usize_add(offset, new_length, checks)
    IN IF sum.panic \/ ~(sum.val <= len)
       THEN [panic |-> TRUE, length |-> len]
       ELSE [panic |-> FALSE, length |-> slice_unchecked(len, offset, new_length)]

Slice(offset, new_length) ==
    LET r == slice(length, offset, new_length, overflow_checks)
    IN /\ length' = r.length
       /\ outcome' = IF r.panic THEN "panic" ELSE "ok"
       /\ call' = [op |-> "slice", offset |-> offset, length |-> new_length,
                   before |-> length]
       /\ UNCHANGED created

----------------------------------------------------------------------------
(* MutableNullArray *)

Unit == "()"

MutIdle ==
    /\ m_length = 0
    /\ m_n = 0
    /\ m_pushes = 0
    /\ m_ret = [op |-> "new", val |-> Unit]
    /\ m_outcome = "ok"

\* MutableNullArray::new(data_type, n) did not panic
MutInit ==
    /\ \E d \in DataTypes, n \in Usize :
          /\ try_new(d, n).tag = "Ok"
          /\ m_length = try_new(d, n).val.length
          /\ m_n = n
    /\ m_pushes = 0
    /\ m_ret = [op |-> "new", val |-> Unit]
    /\ m_outcome = "ok"

\* push_null: self.inner.length += 1
push_null(len, checks) ==
    LET sum == usize_add(len, 1, checks)
    IN IF sum.panic THEN [panic |-> TRUE, length |-> len]
       ELSE [panic |-> FALSE, length |-> sum.val]

\* reserve growing the array by the capacity asked for
reserve_grows(len, additional) == (len + additional) % (USIZE_MAX + 1)

\* reserve: no-op
reserve(len, additional) == len

\* shrink_to_fit: no-op
shrink_to_fit(len) == len

\* MutableArray::len
len(l) == l

\* MutableArray::validity
validity(l) == "None"

\* as_box: a clone of the inner NullArray, boxed
as_box(l) == [data_type |-> "Null", length |-> l]

\* From<MutableNullArray> for NullArray: the inner array
from(l) == [data_type |-> "Null", length |-> l]

Alive == m_outcome # "moved"

PushNull ==
    /\ Alive
    /\ m_pushes < MaxPushes
    /\ LET r == push_null(m_length, overflow_checks)
       IN /\ m_length' = r.length
          /\ m_outcome' = IF r.panic THEN "panic" ELSE "ok"
    /\ m_pushes' = m_pushes + 1
    /\ m_ret' = [op |-> "push_null", val |-> Unit]
    /\ UNCHANGED m_n

Reserve(additional) ==
    /\ Alive
    /\ m_length' = reserve(m_length, additional)
    /\ m_ret' = [op |-> "reserve", val |-> Unit]
    /\ m_outcome' = "ok"
    /\ UNCHANGED <<m_n, m_pushes>>

ShrinkToFit ==
    /\ Alive
    /\ m_length' = shrink_to_fit(m_length)
    /\ m_ret' = [op |-> "shrink_to_fit", val |-> Unit]
    /\ m_outcome' = "ok"
    /\ UNCHANGED <<m_n, m_pushes>>

LenCall ==
    /\ Alive
    /\ m_ret' = [op |-> "len", val |-> len(m_length)]
    /\ m_outcome' = "ok"
    /\ UNCHANGED <<m_length, m_n, m_pushes>>

Validity ==
    /\ Alive
    /\ m_ret' = [op |-> "validity", val |-> validity(m_length)]
    /\ m_outcome' = "ok"
    /\ UNCHANGED <<m_length, m_n, m_pushes>>

AsBox ==
    /\ Alive
    /\ m_ret' = [op |-> "as_box", val |-> as_box(m_length)]
    /\ m_outcome' = "ok"
    /\ UNCHANGED <<m_length, m_n, m_pushes>>

\* NullArray::from(self): the mutable array is consumed
From ==
    /\ Alive
    /\ m_ret' = [op |-> "from", val |-> from(m_length)]
    /\ m_outcome' = "moved"
    /\ UNCHANGED <<m_length, m_n, m_pushes>>

----------------------------------------------------------------------------
(* Specifications *)

\* encode a key, damage the bytes, decode them
InitKey ==
    /\ KeyInit /\ OrderIdle /\ StoreIdle /\ NullIdle /\ MutIdle
    /\ overflow_checks = TRUE

NextKey ==
    \/ Ser /\ UNCHANGED <<orderVars, storeVars, nullVars, mutVars, overflow_checks>>
    \/ \E n \in 0..(20 + 1 + 4 * (MaxNameLen + 1)) :
          Truncate(n) /\ UNCHANGED <<orderVars, storeVars, nullVars, mutVars, overflow_checks>>
    \/ \E i \in 1..(20 + 1 + 4 * (MaxNameLen + 1)), b \in DamagedBytes :
          DamageByte(i, b) /\ UNCHANGED <<orderVars, storeVars, nullVars, mutVars, overflow_checks>>
    \/ \E d \in DamagedDelimiters :
          DamageDelimiter(d) /\ UNCHANGED <<orderVars, storeVars, nullVars, mutVars, overflow_checks>>
    \/ De /\ UNCHANGED <<orderVars, storeVars, nullVars, mutVars, overflow_checks>>

SpecKey == InitKey /\ [][NextKey]_vars

\* serialize two keys of one tenant
InitOrder ==
    /\ KeyInit /\ OrderInit /\ StoreIdle /\ NullIdle /\ MutIdle
    /\ overflow_checks = TRUE

NextOrder ==
    \/ SerKey /\ UNCHANGED <<storeVars, nullVars, mutVars, overflow_checks>>
    \/ SerOther /\ UNCHANGED <<storeVars, nullVars, mutVars, overflow_checks>>

SpecOrder == InitOrder /\ [][NextOrder]_vars

\* the lookup index
InitStore ==
    /\ KeyIdle /\ OrderIdle /\ StoreIdle /\ NullIdle /\ MutIdle
    /\ overflow_checks = TRUE

NextStore ==
    \/ \E t \in Tenants, n \in StoreNames, v \in Values :
          Put(t, n, v) /\ UNCHANGED <<keyVars, orderVars, nullVars, mutVars, overflow_checks>>
    \/ \E t \in Tenants, n \in StoreNames :
          Delete(t, n) /\ UNCHANGED <<keyVars, orderVars, nullVars, mutVars, overflow_checks>>
    \/ \E t \in Tenants, n \in StoreNames :
          Get(t, n) /\ UNCHANGED <<keyVars, orderVars, nullVars, mutVars, overflow_checks>>
    \/ \E t \in Tenants :
          ScanPrefix(t) /\ UNCHANGED <<keyVars, orderVars, nullVars, mutVars, overflow_checks>>

SpecStore == InitStore /\ [][NextStore]_vars

\* NullArray
InitNull ==
    /\ KeyIdle /\ OrderIdle /\ StoreIdle /\ NullInit /\ MutIdle
    /\ overflow_checks \in BOOLEAN

NextNull ==
    \E offset \in Usize, new_length \in Usize :
        Slice(offset, new_length)
        /\ UNCHANGED <<keyVars, orderVars, storeVars, mutVars, overflow_checks>>

SpecNull == InitNull /\ [][NextNull]_vars

\* MutableNullArray
InitMut ==
    /\ KeyIdle /\ OrderIdle /\ StoreIdle /\ NullIdle /\ MutInit
    /\ overflow_checks \in BOOLEAN

NextMut ==
    \/ PushNull /\ UNCHANGED <<keyVars, orderVars, storeVars, nullVars, overflow_checks>>
    \/ \E a \in Usize :
          Reserve(a) /\ UNCHANGED <<keyVars, orderVars, storeVars, nullVars, overflow_checks>>
    \/ ShrinkToFit /\ UNCHANGED <<keyVars, orderVars, storeVars, nullVars, overflow_checks>>
    \/ LenCall /\ UNCHANGED <<keyVars, orderVars, storeVars, nullVars, overflow_checks>>
    \/ Validity /\ UNCHANGED <<keyVars, orderVars, storeVars, nullVars, overflow_checks>>
    \/ AsBox /\ UNCHANGED <<keyVars, orderVars, storeVars, nullVars, overflow_checks>>
    \/ From /\ UNCHANGED <<keyVars, orderVars, storeVars, nullVars, overflow_checks>>

SpecMut == InitMut /\ [][NextMut]_vars

----------------------------------------------------------------------------
(* Properties *)

Decoded == res.tag # "Pending"

\* C1: decoding the serialized form of a key succeeds and returns a key equal
\* to the one serialized, whatever the tenant and the name (empty, multi-byte
\* chars, the delimiter char).
RoundTrip ==
    (mut = "none" /\ Decoded) => (res.tag = "Ok" /\ KeyEq(res.val, key))

RoundTripWitness ==
    /\ mut = "none"
    /\ res.tag = "Ok"
    /\ key.database_name = <<DB_LOOKUP_KEY_DELIMITER, 233>>
    /\ KeyEq(res.val, key)

\* C2: for two names a, b of one tenant, a < b by scalar values exactly when
\* ser of (tenant, a) < ser of (tenant, b) byte-wise.
OrderPreserved ==
    (buf # <<>> /\ other_buf # <<>>) =>
        (SeqLess(key.database_name, other_key.database_name)
            <=> SeqLess(buf, other_buf))

\* C3: decoding a serialized key cut to any strictly shorter length returns a
\* decode error: it neither panics nor returns a key.
TruncationDetected ==
    (mut = "trunc" /\ Decoded) => res.tag = "Err"

\* C4: scan_prefix(T) returns exactly the entries put and not deleted for
\* tenant T: none of another tenant, all of T.
PrefixIsolation ==
    ret.op = "scan_prefix" =>
        /\ ~ret.damaged
        /\ ret.val = {<<new(e[1], e[2]), e[3]>> :
                         e \in {x \in entries : x[1] = ret.tenant}}

PrefixIsolationWitness ==
    /\ ret.op = "scan_prefix"
    /\ ret.tenant = T1
    /\ ret.val = {<<new(T1, <<97>>), 1>>}
    /\ <<T2, <<97>>, 1>> \in entries
    /\ <<T3, <<97>>, 2>> \in entries

\* C5: ser succeeds and its output is the 16 tenant bytes, then 4 bytes that
\* hold the delimiter's code point, then the length prefix of the name's
\* UTF-8 bytes, then those bytes; de takes the tenant from bytes 0..16 and the
\* name from the length prefix that starts at byte 20.
KeyLayout ==
    /\ mut = "none" =>
          LET name == Utf8(key.database_name)
              prefix == Uvarint(Len(name))
              d == SubSeq(buf, 17, 20)
              cp == ScalarBytes(DB_LOOKUP_KEY_DELIMITER)
          IN /\ ser(key).tag = "Ok"
             /\ Len(buf) = 16 + 4 + Len(prefix) + Len(name)
             /\ SubSeq(buf, 1, 16) = key.tenant_id
             /\ (d = cp \/ d = <<cp[4], cp[3], cp[2], cp[1]>>)
             /\ SubSeq(buf, 21, 20 + Len(prefix)) = prefix
             /\ SubSeq(buf, 21 + Len(prefix), Len(buf)) = name
    /\ res.tag = "Ok" =>
          LET name == Utf8(res.val.database_name)
              n == read_uvarint(buf, 20)
          IN /\ res.val.tenant_id = SubSeq(buf, 1, 16)
             /\ n.ok
             /\ n.val = Len(name)
             /\ SubSeq(buf, n.pos + 1, n.pos + n.val) = name

KeyLayoutWitness ==
    /\ mut = "none"
    /\ res.tag = "Ok"
    /\ key.tenant_id = T2
    /\ key.database_name = <<DB_LOOKUP_KEY_DELIMITER, DB_LOOKUP_KEY_DELIMITER>>
    /\ Len(buf) = 29

SameFields(a, b) ==
    a.tenant_id = b.tenant_id /\ a.database_name = b.database_name

\* C6: a key made by new or by a successful de has the constant delimiter, so
\* two such keys are equal exactly when tenant id and name are equal.
DelimiterFixed ==
    /\ key.delimiter = DB_LOOKUP_KEY_DELIMITER
    /\ res.tag = "Ok" =>
          /\ res.val.delimiter = DB_LOOKUP_KEY_DELIMITER
          /\ KeyEq(res.val, key) <=> SameFields(res.val, key)
    /\ res_base.tag = "Ok" =>
          /\ res_base.val.delimiter = DB_LOOKUP_KEY_DELIMITER
          /\ KeyEq(res_base.val, key) <=> SameFields(res_base.val, key)
    /\ (res.tag = "Ok" /\ res_base.tag = "Ok") =>
          (KeyEq(res.val, res_base.val) <=> SameFields(res.val, res_base.val))

DelimiterFixedWitness ==
    /\ mut = "delim"
    /\ SubSeq(buf, 17, 20) = <<0, 0, 0, 97>>
    /\ res.tag = "Ok"
    /\ KeyEq(res.val, key)

\* C7: for any bytes, de returns Ok(key) or MetaStoreDamaged("invalid key
\* IVec"); every decode failure is that error.
StoreDamagedReported ==
    Decoded => (res.tag = "Ok" \/ res = MetaStoreDamaged)

\* C8: slice(offset, length) panics exactly when offset + length exceeds the
\* array's length; otherwise the length becomes `length`; the length never
\* exceeds the length the array was created with.
SliceContract ==
    /\ call.op = "slice" =>
          /\ (outcome = "panic") <=> (call.offset + call.length > call.before)
          /\ outcome = "ok" => length = call.length
    /\ length <= created

\* C9: two buffers of at least 20 bytes that differ only in the bytes at
\* offsets 16..20 decode to the same result.
DelimiterSkipped ==
    (mut = "delim" /\ Decoded) => SameResult(res, res_base)

DelimiterSkippedWitness ==
    /\ mut = "delim"
    /\ SubSeq(buf, 17, 20) = <<0, 0, 0, 0>>
    /\ SubSeq(base, 17, 20) = ScalarBytes(DB_LOOKUP_KEY_DELIMITER)
    /\ res.tag = "Ok"
    /\ res_base.tag = "Ok"
    /\ res.val = new(SubSeq(buf, 1, 16), <<233, DB_LOOKUP_KEY_DELIMITER>>)

\* what the last MutableNullArray call returned agrees with the array
MutReturns ==
    /\ m_ret.op = "len" => m_ret.val = m_length
    /\ m_ret.op = "validity" => m_ret.val = "None"
    /\ m_ret.op \in {"as_box", "from"} => m_ret.val.length = m_length

\* C10 as stated: len() is n plus the number of push_null calls, validity() is
\* None, a conversion yields an array of that length.
MutLenExact ==
    /\ m_length = m_n + m_pushes
    /\ MutReturns

\* C10 as amended: len() is n plus the number of push_null calls as long as
\* that sum does not exceed usize::MAX; validity() is None, a conversion
\* yields an array of the mutable array's length.
MutLenAccounting ==
    /\ m_n + m_pushes <= USIZE_MAX => m_length = m_n + m_pushes
    /\ MutReturns

MutLenAccountingWitness ==
    /\ m_ret.op = "as_box"
    /\ m_n = 1
    /\ m_pushes = 3
    /\ m_ret.val.length = 4
    /\ m_length = 4

====
